---- MODULE Spec2Model ----
(***************************************************************************)
(* Model of app.py, the Malaysia climate dashboard: the Cleaner            *)
(* (load_and_clean), the sidebar Filter, the by-Year Aggregator and the    *)
(* summary block of tab 1.  One action per script run: the first run after *)
(* an upload, and the rerun that follows a change of either sidebar        *)
(* widget.                                                                 *)
(*                                                                         *)
(* Numbers are exact rationals [nan, n, d] in lowest terms (d > 0); NaN is *)
(* the missing-value marker of pandas.  Cell text is a sequence of         *)
(* one-character strings over the alphabet Char.                           *)
(***************************************************************************)
EXTENDS Integers, Sequences, FiniteSets, TLC

VARIABLES uploaded, df, sel_years, sel_states, dff, kpi, annual, summary, exc

vars == <<uploaded, df, sel_years, sel_states, dff, kpi, annual, summary, exc>>

\* Largest number of data rows in an uploaded file.
MaxRows == 2

(***************************************************************************)
(* Rationals                                                               *)
(***************************************************************************)
Abs(i) == IF i < 0 THEN 0 - i ELSE i

RECURSIVE GCD(_, _)
GCD(a, b) == IF b = 0 THEN a ELSE GCD(b, a % b)

NaN == [nan |-> TRUE, n |-> 0, d |-> 1]

\* The rational a/b (b > 0) in lowest terms.
Q(a, b) ==
    LET g == GCD(Abs(a), b)
    IN  [nan |-> FALSE, n |-> a \div g, d |-> b \div g]

Num(i) == Q(i, 1)

isna(x) == x.nan

\* Arithmetic and comparisons propagate NaN as floats do: a sum with NaN is
\* NaN, a comparison with NaN is False.
QAdd(x, y) ==
    IF x.nan \/ y.nan THEN NaN ELSE Q(x.n * y.d + y.n * x.d, x.d * y.d)

QDivInt(x, k) == IF x.nan THEN NaN ELSE Q(x.n, x.d * k)

QLe(x, y) == ~x.nan /\ ~y.nan /\ x.n * y.d <= y.n * x.d

between(x, lo, hi) == QLe(lo, x) /\ QLe(x, hi)

RECURSIVE Pow10(_)
Pow10(k) == IF k = 0 THEN 1 ELSE 10 * Pow10(k - 1)

(***************************************************************************)
(* Text                                                                    *)
(***************************************************************************)
Digit == <<"0", "1", "2", "3", "4", "5", "6", "7", "8", "9">>

DigitChars == {Digit[i] : i \in 1..10}

\* The alphabet of the cell texts of the model.
Char == DigitChars \cup {",", "-", "+", ".", " ", "x", "n", "a"}

DigitVal(c) == (CHOOSE i \in 1..10 : Digit[i] = c) - 1

RECURSIVE DigitsToInt(_)
DigitsToInt(s) ==
    IF s = <<>> THEN 0
    ELSE 10 * DigitsToInt(SubSeq(s, 1, Len(s) - 1)) + DigitVal(s[Len(s)])

RECURSIVE NatToStr(_)
NatToStr(i) ==
    IF i < 10 THEN <<Digit[i + 1]>>
    ELSE Append(NatToStr(i \div 10), Digit[(i % 10) + 1])

\* str(i) of a Python int.
IntToStr(i) == IF i < 0 THEN <<"-">> \o NatToStr(0 - i) ELSE NatToStr(i)

\* Series.astype(str) on one cell: a missing cell becomes the text "nan".
astype_str(c) ==
    CASE c.k = "null" -> <<"n", "a", "n">>
      [] c.k = "int"  -> IntToStr(c.v)
      [] OTHER        -> c.s

\* Series.str.replace(ch, "") on one cell.
RECURSIVE str_replace(_, _)
str_replace(s, ch) ==
    IF s = <<>> THEN <<>>
    ELSE IF Head(s) = ch THEN str_replace(Tail(s), ch)
    ELSE <<Head(s)>> \o str_replace(Tail(s), ch)

RECURSIVE lstrip(_)
lstrip(s) == IF s # <<>> /\ Head(s) = " " THEN lstrip(Tail(s)) ELSE s

RECURSIVE rstrip(_)
rstrip(s) ==
    IF s # <<>> /\ s[Len(s)] = " " THEN rstrip(SubSeq(s, 1, Len(s) - 1)) ELSE s

\* Series.str.strip() on one cell.
str_strip(s) == rstrip(lstrip(s))

\* to_numeric_series without the comma removal.
to_numeric_series_KeepComma(c) == str_strip(str_replace(astype_str(c), "-"))

\* to_numeric_series without the hyphen removal.
to_numeric_series_KeepHyphen(c) == str_strip(str_replace(astype_str(c), ","))

\* to_numeric_series on one cell: text form, commas removed, hyphens removed,
\* surrounding whitespace removed.
to_numeric_series(c) ==
    str_strip(str_replace(str_replace(astype_str(c), ","), "-"))

AllDigits(s) == \A i \in 1..Len(s) : s[i] \in DigitChars

\* The unsigned decimal literal s (digits with at most one "."), or NaN.
ParseUnsigned(s) ==
    LET dots == {i \in 1..Len(s) : s[i] = "."}
    IN  IF dots = {}
        THEN IF s # <<>> /\ AllDigits(s) THEN Num(DigitsToInt(s)) ELSE NaN
        ELSE IF Cardinality(dots) > 1 THEN NaN
        ELSE LET p    == CHOOSE i \in dots : TRUE
                 ip   == SubSeq(s, 1, p - 1)
                 fp   == SubSeq(s, p + 1, Len(s))
             IN  IF AllDigits(ip) /\ AllDigits(fp) /\ Len(ip) + Len(fp) > 0
                 THEN Q(DigitsToInt(ip) * Pow10(Len(fp)) + DigitsToInt(fp),
                        Pow10(Len(fp)))
                 ELSE NaN

\* pd.to_numeric(errors='coerce') on one text cell, over the alphabet Char:
\* an optionally signed decimal literal is its value; the empty text, "nan"
\* and every text that is not a number are NaN.
pd_to_numeric(s) ==
    IF s = <<>> THEN NaN
    ELSE IF Head(s) = "-"
         THEN LET u == ParseUnsigned(Tail(s))
              IN  IF u.nan THEN NaN ELSE Q(0 - u.n, u.d)
    ELSE IF Head(s) = "+" THEN ParseUnsigned(Tail(s))
    ELSE ParseUnsigned(s)

(***************************************************************************)
(* Cleaner: load_and_clean                                                 *)
(***************************************************************************)
\* The canonical column names, in the order the code assigns them.
CanonicalColumns ==
    <<"State", "Station", "Altitude_m", "Year", "MinTemp_C", "MaxTemp_C",
      "Rainfall_mm", "RainDays", "Humidity_pct">>

\* A variant that compares the header's labels with the canonical ones.
set_columns_raises_ByName(file) == file.columns # CanonicalColumns

\* df.columns = [...] raises ValueError (length mismatch) exactly when the
\* table does not have as many columns as names are assigned.
set_columns_raises(file) == Len(file.columns) # Len(CanonicalColumns)

\* The table after the positional relabelling: the i-th cell of every row
\* gets the i-th canonical name, whatever the header said.  idx is the
\* row's label in the DataFrame's index, which every later step preserves.
set_columns(file) ==
    [i \in 1..Len(file.rows) |->
        [idx          |-> i - 1,
         State        |-> file.rows[i][1],
         Station      |-> file.rows[i][2],
         Altitude_m   |-> file.rows[i][3],
         Year         |-> file.rows[i][4],
         MinTemp_C    |-> file.rows[i][5],
         MaxTemp_C    |-> file.rows[i][6],
         Rainfall_mm  |-> file.rows[i][7],
         RainDays     |-> file.rows[i][8],
         Humidity_pct |-> file.rows[i][9]]]

\* Lines 56-66: the seven numeric-bearing columns go through
\* to_numeric_series and then pd.to_numeric(errors='coerce').
convert_types(t) ==
    [i \in 1..Len(t) |->
        [t[i] EXCEPT
            !.Rainfall_mm  = pd_to_numeric(to_numeric_series(@)),
            !.RainDays     = pd_to_numeric(to_numeric_series(@)),
            !.Humidity_pct = pd_to_numeric(to_numeric_series(@)),
            !.Altitude_m   = pd_to_numeric(to_numeric_series(@)),
            !.MinTemp_C    = pd_to_numeric(to_numeric_series(@)),
            !.MaxTemp_C    = pd_to_numeric(to_numeric_series(@)),
            !.Year         = pd_to_numeric(to_numeric_series(@))]]

\* A row has a value in every essential column.
HasEssentials(r) ==
    /\ ~isna(r.Year)
    /\ ~isna(r.MinTemp_C)
    /\ ~isna(r.MaxTemp_C)
    /\ ~isna(r.Humidity_pct)
    /\ ~isna(r.Rainfall_mm)

\* dropna with Year left out of the subset.
dropna_NoYear(t) ==
    LET Keep(r) == /\ ~isna(r.MinTemp_C)
                   /\ ~isna(r.MaxTemp_C)
                   /\ ~isna(r.Humidity_pct)
                   /\ ~isna(r.Rainfall_mm)
    IN  SelectSeq(t, Keep)

\* Line 69: df.dropna(subset=[essential columns]).
dropna(t) == SelectSeq(t, HasEssentials)

\* Line 72: the derived column AvgTemp_C.
AvgTemp(r) == QDivInt(QAdd(r.MinTemp_C, r.MaxTemp_C), 2)

derive(t) ==
    [i \in 1..Len(t) |->
        [idx          |-> t[i].idx,
         State        |-> t[i].State,
         Station      |-> t[i].Station,
         Altitude_m   |-> t[i].Altitude_m,
         Year         |-> t[i].Year,
         MinTemp_C    |-> t[i].MinTemp_C,
         MaxTemp_C    |-> t[i].MaxTemp_C,
         Rainfall_mm  |-> t[i].Rainfall_mm,
         RainDays     |-> t[i].RainDays,
         Humidity_pct |-> t[i].Humidity_pct,
         AvgTemp_C    |-> AvgTemp(t[i])]]

\* The bounds mask without the test on MaxTemp_C.
InBounds_NoMaxTemp(r) ==
    /\ QLe(Num(0), r.Rainfall_mm)
    /\ between(r.Humidity_pct, Num(0), Num(100))
    /\ QLe(Num(5), r.MinTemp_C)

\* Lines 75-80: the mask of the reasonable bounds.
InBounds(r) ==
    /\ QLe(Num(0), r.Rainfall_mm)
    /\ between(r.Humidity_pct, Num(0), Num(100))
    /\ QLe(r.MaxTemp_C, Num(45))
    /\ QLe(Num(5), r.MinTemp_C)

bounds(t) == SelectSeq(t, InBounds)

\* The deduplication key.  A missing State or Station is the same key value
\* in every row that lacks it: pandas' duplicated() treats NaN as equal to
\* NaN.
Key(r) == <<r.State, r.Station, r.Year>>

\* A deduplication under which a missing key part never equals another.
drop_duplicates_NullDistinct(t) ==
    LET First(i) == \A j \in 1..(i - 1) :
                       \/ Key(t[j]) # Key(t[i])
                       \/ t[i].State.null
                       \/ t[i].Station.null
        RECURSIVE Pick(_)
        Pick(i) == IF i > Len(t) THEN <<>>
                   ELSE IF First(i) THEN <<t[i]>> \o Pick(i + 1)
                   ELSE Pick(i + 1)
    IN  Pick(1)

\* Line 83: drop_duplicates(subset=['State','Station','Year']) keeps the
\* first row of every key, in order.
drop_duplicates(t) ==
    LET First(i) == \A j \in 1..(i - 1) : Key(t[j]) # Key(t[i])
        RECURSIVE Pick(_)
        Pick(i) == IF i > Len(t) THEN <<>>
                   ELSE IF First(i) THEN <<t[i]>> \o Pick(i + 1)
                   ELSE Pick(i + 1)
    IN  Pick(1)

\* The steps of lines 48-85 with the deduplication moved to the front.
clean_DedupFirst(file) ==
    bounds(derive(dropna(drop_duplicates(convert_types(set_columns(file))))))

\* Lines 48-85 on a table that took the relabelling: the returned table.
clean(file) ==
    drop_duplicates(bounds(derive(dropna(convert_types(set_columns(file))))))

\* load_and_clean: the relabelling raises, or the cleaned table is returned.
load_and_clean(file) ==
    IF set_columns_raises(file)
    THEN [raised |-> TRUE, df |-> <<>>]
    ELSE [raised |-> FALSE, df |-> clean(file)]

(***************************************************************************)
(* Sidebar filter, KPI row, annual aggregate and summary                   *)
(***************************************************************************)
\* int(x) of a float: truncation toward zero.
int(x) == IF x.n < 0 THEN 0 - ((0 - x.n) \div x.d) ELSE x.n \div x.d

QMin(S) == CHOOSE y \in S : \A z \in S : QLe(y, z)

QMax(S) == CHOOSE y \in S : \A z \in S : QLe(z, y)

\* Line 96: the distinct non-missing years of a table.
years(t) == {t[i].Year : i \in {j \in 1..Len(t) : ~isna(t[j].Year)}}

\* Line 97.
yr_min(t) == int(QMin(years(t)))

yr_max(t) == int(QMax(years(t)))

\* Line 100: the distinct non-missing states; the options, and the default,
\* of the multiselect.  The code sorts them for display only.
states(t) == {t[i].State.name : i \in {j \in 1..Len(t) : ~t[j].State.null}}

stations(t) ==
    {t[i].Station.name : i \in {j \in 1..Len(t) : ~t[j].Station.null}}

\* Series.isin(values) for a list of names: a missing cell is in no such list.
isin(c, values) == ~c.null /\ c.name \in values

\* Line 103.
mask(r, sy, ss) ==
    /\ between(r.Year, Num(sy[1]), Num(sy[2]))
    /\ isin(r.State, ss)

\* Line 104: the rows of t the mask selects, in order.
filter(t, sy, ss) ==
    LET Sel(r) == mask(r, sy, ss)
    IN  SelectSeq(t, Sel)

RECURSIVE QSum(_)
QSum(xs) == IF xs = <<>> THEN Num(0) ELSE QAdd(Head(xs), QSum(Tail(xs)))

\* A "mean" that forgets to divide by the group's size.
mean_NoDivide(xs) == IF xs = <<>> THEN NaN ELSE QSum(xs)

\* Series.mean(): NaN for an empty series.
mean(xs) == IF xs = <<>> THEN NaN ELSE QDivInt(QSum(xs), Len(xs))

\* The elements of a set of rationals in ascending order.
RECURSIVE Ascending(_)
Ascending(S) ==
    IF S = {} THEN <<>>
    ELSE LET m == QMin(S) IN <<m>> \o Ascending(S \ {m})

\* Lines 129-132: groupby('Year') of the three variables, mean, one row per
\* distinct year in ascending order.
groupby_Year_mean(t) ==
    LET keys == Ascending(years(t))
        Group(y) == LET In(r) == r.Year = y IN SelectSeq(t, In)
    IN  [k \in 1..Len(keys) |->
            LET g == Group(keys[k])
            IN  [Year         |-> keys[k],
                 AvgTemp_C    |-> mean([i \in 1..Len(g) |-> g[i].AvgTemp_C]),
                 Rainfall_mm  |-> mean([i \in 1..Len(g) |-> g[i].Rainfall_mm]),
                 Humidity_pct |-> mean([i \in 1..Len(g) |-> g[i].Humidity_pct])]]

\* Series.min() / Series.max(): NaN for an empty series.
year_min(t) == IF years(t) = {} THEN NaN ELSE QMin(years(t))

year_max(t) == IF years(t) = {} THEN NaN ELSE QMax(years(t))

\* Lines 115-119: the four metrics.
kpi_row(t) ==
    [Rows      |-> Len(t),
     States    |-> Cardinality(states(t)),
     YearRange |-> <<year_min(t), year_max(t)>>,
     Stations  |-> Cardinality(stations(t))]

\* Lines 138: int() of a NaN raises ValueError; the minimum of the Year column
\* of an empty aggregate is NaN.
summary_raises(a) == isna(year_min(a))

\* Lines 136-142: the figures of the summary box (before formatting).
summary_box(a) ==
    [YearsShown   |-> <<int(year_min(a)), int(year_max(a))>>,
     MeanTemp     |-> mean([i \in 1..Len(a) |-> a[i].AvgTemp_C]),
     Rainfall     |-> mean([i \in 1..Len(a) |-> a[i].Rainfall_mm]),
     Humidity     |-> mean([i \in 1..Len(a) |-> a[i].Humidity_pct])]

(***************************************************************************)
(* Uploaded files                                                          *)
(***************************************************************************)
Name(s) == [null |-> FALSE, name |-> s]

NoName == [null |-> TRUE, name |-> ""]

TextCell(s) == [k |-> "str", s |-> s, v |-> 0]

IntCell(v) == [k |-> "int", s |-> <<>>, v |-> v]

Null == [k |-> "null", s |-> <<>>, v |-> 0]

\* The row of the specification's example:
\* ("Selangor","KLIA",16,"2010","24","33","150,5","12","80").
ExampleRow ==
    <<Name("Selangor"), Name("KLIA"), IntCell(16),
      TextCell(<<"2", "0", "1", "0">>), TextCell(<<"2", "4">>), TextCell(<<"3", "3">>),
      TextCell(<<"1", "5", "0", ",", "5">>), TextCell(<<"1", "2">>), TextCell(<<"8", "0">>)>>

\* Other cells a column may hold.
Alternatives ==
    <<{Name("Johor"), NoName},
      {NoName},
      {TextCell(<<"x">>)},
      {TextCell(<<"2", "0", "1", "1">>), TextCell(<<"2", "0", "1", "0", ".", "0">>),
       TextCell(<<"-">>)},
      {TextCell(<<"4">>), TextCell(<<"n", "a">>), TextCell(<<"2", "5", ".", "5">>)},
      {TextCell(<<"4", "6">>), Null},
      {TextCell(<<"-", "3">>), TextCell(<<"-">>), IntCell(0 - 7)},
      {TextCell(<<"x">>)},
      {TextCell(<<"1", "0", "5">>), TextCell(<<" ", "7", "5", " ">>), TextCell(<<>>)}>>

\* The example row, and the example row with one cell replaced.
RowKinds ==
    {ExampleRow} \cup
    UNION {{[ExampleRow EXCEPT ![c] = a] : a \in Alternatives[c]} :
              c \in 1..Len(ExampleRow)}

Tables == UNION {[1..n -> RowKinds] : n \in 0..MaxRows}

\* Headers: the canonical one, one with the two temperature columns in the
\* other order, one with a column missing and one with a column too many.
Headers ==
    {CanonicalColumns,
     [CanonicalColumns EXCEPT ![5] = "MaxTemp_C", ![6] = "MinTemp_C"],
     SubSeq(CanonicalColumns, 1, Len(CanonicalColumns) - 1),
     Append(CanonicalColumns, "Notes")}

\* A row of the width of the header h.
Fit(row, h) ==
    IF Len(h) <= Len(row) THEN SubSeq(row, 1, Len(h))
    ELSE Append(row, TextCell(<<"x">>))

Files ==
    {[columns |-> h, rows |-> [i \in 1..Len(t) |-> Fit(t[i], h)]] :
        h \in Headers, t \in Tables}

(***************************************************************************)
(* The script                                                              *)
(***************************************************************************)
NoExc == [type |-> "none", at |-> ""]

ValueError(where) == [type |-> "ValueError", at |-> where]

\* The sidebar widgets exist: the last run got past line 101.
HasWidgets == uploaded # <<>> /\ exc.at \notin {"load_and_clean", "yr_min"}

\* The KPI row was produced by the last run.
Rendered == kpi # <<>>

Init ==
    /\ uploaded = <<>>
    /\ df = <<>>
    /\ sel_years = <<>>
    /\ sel_states = {}
    /\ dff = <<>>
    /\ kpi = <<>>
    /\ annual = <<>>
    /\ summary = <<>>
    /\ exc = NoExc

\* Lines 103-142 for the table d and the widget values sy, ss.
Recompute(d, sy, ss) ==
    LET f == filter(d, sy, ss)
        a == groupby_Year_mean(f)
    IN  /\ sel_years' = sy
        /\ sel_states' = ss
        /\ dff' = f
        /\ kpi' = <<kpi_row(f)>>
        /\ annual' = a
        /\ IF summary_raises(a)
           THEN summary' = <<>> /\ exc' = ValueError("summary")
           ELSE summary' = <<summary_box(a)>> /\ exc' = NoExc

\* The run that follows the first upload of a session: load_and_clean, the
\* widgets at their defaults (the full year range, every state), lines
\* 103-142.  The run stops with ValueError when load_and_clean raises, and
\* at line 97 when there is no year to take the minimum of.
Upload(file) ==
    /\ uploaded = <<>>
    /\ uploaded' = <<file>>
    /\ LET res == load_and_clean(file)
       IN  IF res.raised \/ years(res.df) = {}
           THEN /\ df' = res.df
                /\ exc' = IF res.raised THEN ValueError("load_and_clean")
                                        ELSE ValueError("yr_min")
                /\ UNCHANGED <<sel_years, sel_states, dff, kpi, annual,
                               summary>>
           ELSE /\ df' = res.df
                /\ Recompute(res.df, <<yr_min(res.df), yr_max(res.df)>>,
                             states(res.df))

\* The rerun after the user moves the year slider.  load_and_clean is
\* cached on the file, so df is the table of the first run.
SelectYears(lo, hi) ==
    /\ HasWidgets
    /\ lo <= hi
    /\ <<lo, hi>> # sel_years
    /\ Recompute(df, <<lo, hi>>, sel_states)
    /\ UNCHANGED <<uploaded, df>>

\* The rerun after the user changes the selected states.
SelectStates(ss) ==
    /\ HasWidgets
    /\ ss # sel_states
    /\ Recompute(df, sel_years, ss)
    /\ UNCHANGED <<uploaded, df>>

\* Line 98: the values the slider offers.
YearOptions == IF HasWidgets THEN yr_min(df)..yr_max(df) ELSE {}

\* Line 16: the files the uploader can take; one upload per session.
UploadChoices == IF uploaded = <<>> THEN Files ELSE {}

Next ==
    \/ \E file \in UploadChoices : Upload(file)
    \/ \E lo \in YearOptions, hi \in YearOptions : SelectYears(lo, hi)
    \/ \E ss \in SUBSET states(df) : SelectStates(ss)

Spec == Init /\ [][Next]_vars

(***************************************************************************)
(* Properties                                                              *)
(***************************************************************************)
\* The uploaded file, its raw rows, and the rows after relabelling and
\* conversion (before any row is dropped).
File == uploaded[1]

Loaded == uploaded # <<>> /\ exc.at # "load_and_clean"

Parsed == convert_types(set_columns(File))

\* The row of df that came from raw row i, as a set (empty when dropped).
FromRow(i) == {j \in 1..Len(df) : df[j].idx = i - 1}

\* Row r has a number in every essential column and is within the bounds.
ValidRow(r) ==
    /\ ~r.Year.nan
    /\ ~r.MinTemp_C.nan /\ r.MinTemp_C.n >= 5 * r.MinTemp_C.d
    /\ ~r.MaxTemp_C.nan /\ r.MaxTemp_C.n <= 45 * r.MaxTemp_C.d
    /\ ~r.Rainfall_mm.nan /\ r.Rainfall_mm.n >= 0
    /\ ~r.Humidity_pct.nan
    /\ r.Humidity_pct.n >= 0 /\ r.Humidity_pct.n <= 100 * r.Humidity_pct.d

SameKey(r, q) ==
    r.State = q.State /\ r.Station = q.Station /\ r.Year = q.Year

ExampleFile == [columns |-> CanonicalColumns, rows |-> <<ExampleRow>>]

ExampleCleaned(rain) ==
    [idx          |-> 0,
     State        |-> Name("Selangor"),
     Station      |-> Name("KLIA"),
     Altitude_m   |-> Num(16),
     Year         |-> Num(2010),
     MinTemp_C    |-> Num(24),
     MaxTemp_C    |-> Num(33),
     Rainfall_mm  |-> rain,
     RainDays     |-> Num(12),
     Humidity_pct |-> Num(80),
     AvgTemp_C    |-> Q(57, 2)]

\* C1 as stated: cleaning the example row yields exactly one row, with
\* Rainfall_mm 150.5 (and Altitude_m 16, Year 2010, MinTemp_C 24, MaxTemp_C
\* 33, RainDays 12, Humidity_pct 80, AvgTemp_C 28.5).
C1_ExampleRainfall150_5 ==
    uploaded = <<ExampleFile>> => df = <<ExampleCleaned(Q(1505, 10))>>

\* C1 amended: cleaning the example row yields exactly one row, whose
\* Rainfall_mm is 1505: the comma of "150,5" is removed, not read as a
\* decimal point; the other fields are as the example says.
C1_ExampleRainfall1505 ==
    uploaded = <<ExampleFile>> => df = <<ExampleCleaned(Num(1505))>>

\* The example file was uploaded and cleaned to one row.
C1_Witness == uploaded = <<ExampleFile>> /\ Len(df) = 1 /\ Rendered

\* C2: when the selection matches no row of the cleaned table, the run
\* completes without an exception and the summary box is produced.
C2_EmptyResultDegrades ==
    (Rendered /\ dff = <<>>) => (exc = NoExc /\ summary # <<>>)

\* C3: with the full year range and every offered state selected, the
\* filtered table is the cleaned table, same rows in the same order.
C3_FilterIdentity ==
    (Rendered /\ exc = NoExc
              /\ sel_years = <<yr_min(df), yr_max(df)>>
              /\ sel_states = states(df))
        => dff = df

\* C4: every row of the cleaned table has 0 <= Humidity_pct <= 100,
\* MinTemp_C >= 5, MaxTemp_C <= 45 and Rainfall_mm >= 0.
C4_BoundsHold ==
    \A j \in 1..Len(df) :
        /\ ~df[j].Humidity_pct.nan
        /\ df[j].Humidity_pct.n >= 0
        /\ df[j].Humidity_pct.n <= 100 * df[j].Humidity_pct.d
        /\ ~df[j].MinTemp_C.nan /\ df[j].MinTemp_C.n >= 5 * df[j].MinTemp_C.d
        /\ ~df[j].MaxTemp_C.nan /\ df[j].MaxTemp_C.n <= 45 * df[j].MaxTemp_C.d
        /\ ~df[j].Rainfall_mm.nan /\ df[j].Rainfall_mm.n >= 0

\* A file with a row that parses but breaks a bound, and a row that is kept.
C4_Witness ==
    /\ Loaded
    /\ df # <<>>
    /\ \E i \in 1..Len(Parsed) :
          /\ ~Parsed[i].MaxTemp_C.nan
          /\ Parsed[i].MaxTemp_C.n > 45 * Parsed[i].MaxTemp_C.d
          /\ FromRow(i) = {}

\* C5: no two rows of the cleaned table have the same (State, Station, Year),
\* a missing State or Station counting as a value like any other.
C5_KeysUnique ==
    \A i \in 1..Len(df), j \in 1..Len(df) :
        i # j => ~SameKey(df[i], df[j])

\* Two raw rows that both lack the State and agree on the rest of the key:
\* one row is left.
C5_Witness ==
    /\ Loaded
    /\ Len(Parsed) = 2
    /\ Parsed[1].State.null
    /\ SameKey(Parsed[1], Parsed[2])
    /\ Len(df) = 1

\* C6 as stated: a file whose header is not the canonical nine columns in
\* the canonical order is rejected by the Cleaner; no row of such a file is
\* relabelled and cleaned.
C6_WrongLayoutRejected ==
    (uploaded # <<>> /\ File.columns # CanonicalColumns /\ df # <<>>)
        => exc = ValueError("load_and_clean")

\* C6 amended: the Cleaner raises exactly when the table does not have nine
\* columns; a nine-column table is relabelled by position whatever its header
\* says, so the fifth cell of a row is its MinTemp_C and the sixth its
\* MaxTemp_C.
C6_OnlyCountRejected ==
    uploaded # <<>> =>
        /\ (exc = ValueError("load_and_clean"))
              <=> (Len(File.columns) # Len(CanonicalColumns))
        /\ exc.at # "load_and_clean" =>
              \A j \in 1..Len(df) :
                 LET raw == File.rows[df[j].idx + 1]
                 IN  /\ df[j].MinTemp_C = pd_to_numeric(to_numeric_series(raw[5]))
                     /\ df[j].MaxTemp_C = pd_to_numeric(to_numeric_series(raw[6]))

\* A nine-column file with MaxTemp_C before MinTemp_C in its header, cleaned.
C6_Witness ==
    /\ Loaded
    /\ File.columns # CanonicalColumns
    /\ df # <<>>

\* The filtered table is not empty and all its rows have the same Year.
SingleYear == Rendered /\ dff # <<>> /\ Cardinality(years(dff)) = 1

\* k times x.
QMulInt(x, k) == IF x.nan THEN NaN ELSE Q(x.n * k, x.d)

\* C7 as stated: over a non-empty filtered table with a single year the
\* by-Year aggregate has exactly one row, and its three values are the
\* values of that year's records.
C7_SingleYearRawValues ==
    SingleYear =>
        /\ Len(annual) = 1
        /\ \A i \in 1..Len(dff) :
              /\ annual[1].AvgTemp_C = dff[i].AvgTemp_C
              /\ annual[1].Rainfall_mm = dff[i].Rainfall_mm
              /\ annual[1].Humidity_pct = dff[i].Humidity_pct

\* C7 amended: over a non-empty filtered table with a single year the
\* by-Year aggregate has exactly one row, for that year, and each of its
\* three values is the arithmetic mean of the column over the table's rows
\* (so the record's own values when the table has one row).
C7_SingleYearMeans ==
    SingleYear =>
        /\ Len(annual) = 1
        /\ annual[1].Year = dff[1].Year
        /\ QMulInt(annual[1].AvgTemp_C, Len(dff))
              = QSum([i \in 1..Len(dff) |-> dff[i].AvgTemp_C])
        /\ QMulInt(annual[1].Rainfall_mm, Len(dff))
              = QSum([i \in 1..Len(dff) |-> dff[i].Rainfall_mm])
        /\ QMulInt(annual[1].Humidity_pct, Len(dff))
              = QSum([i \in 1..Len(dff) |-> dff[i].Humidity_pct])
        /\ Len(dff) = 1 =>
              /\ annual[1].AvgTemp_C = dff[1].AvgTemp_C
              /\ annual[1].Rainfall_mm = dff[1].Rainfall_mm
              /\ annual[1].Humidity_pct = dff[1].Humidity_pct

\* Two records of one year with different humidity.
C7_Witness ==
    /\ SingleYear
    /\ Len(dff) = 2
    /\ dff[1].Humidity_pct # dff[2].Humidity_pct

NumericAt(r, c) ==
    CASE c = 3 -> r.Altitude_m
      [] c = 4 -> r.Year
      [] c = 5 -> r.MinTemp_C
      [] c = 6 -> r.MaxTemp_C
      [] c = 7 -> r.Rainfall_mm
      [] c = 8 -> r.RainDays
      [] c = 9 -> r.Humidity_pct

\* The cell reads "-N" for a natural number N.
IsMinusN(c) ==
    \/ c.k = "int" /\ c.v < 0
    \/ /\ c.k = "str"
       /\ Len(c.s) > 1
       /\ Head(c.s) = "-"
       /\ AllDigits(Tail(c.s))

MinusN(c) == IF c.k = "int" THEN 0 - c.v ELSE DigitsToInt(Tail(c.s))

IsHyphen(c) == c.k = "str" /\ c.s = <<"-">>

\* C9: every hyphen is removed before parsing.  No numeric column of the
\* cleaned table holds a negative value; a cell "-N" of a kept row is the
\* number N there; a row with a cell "-" in an essential column is dropped,
\* and "-" in another column is NaN; a row whose Rainfall_mm reads "-N" and
\* that is otherwise valid and the first of its key is kept with Rainfall_mm
\* N.
C9_HyphenStripped ==
    Loaded =>
        /\ \A j \in 1..Len(df), c \in 3..9 :
              LET cell == File.rows[df[j].idx + 1][c]
                  x == NumericAt(df[j], c)
              IN  /\ x.nan \/ x.n >= 0
                  /\ IsMinusN(cell) => x = Num(MinusN(cell))
                  /\ IsHyphen(cell) => x.nan
        /\ \A i \in 1..Len(File.rows) :
              LET raw == File.rows[i]
                  r == [Parsed[i] EXCEPT !.Rainfall_mm = Num(MinusN(raw[7]))]
              IN  /\ (\E c \in {4, 5, 6, 7, 9} : IsHyphen(raw[c]))
                        => FromRow(i) = {}
                  /\ (/\ IsMinusN(raw[7])
                      /\ ValidRow(r)
                      /\ \A j \in 1..Len(df) :
                            df[j].idx < i - 1 => ~SameKey(df[j], r))
                        => \E j \in FromRow(i) :
                              df[j].Rainfall_mm = Num(MinusN(raw[7]))

\* A kept row whose raw Rainfall_mm reads "-3", next to a row dropped for a
\* "-" in an essential column.
C9_Witness ==
    /\ Loaded
    /\ \E j \in 1..Len(df) :
          /\ File.rows[df[j].idx + 1][7] = TextCell(<<"-", "3">>)
          /\ df[j].Rainfall_mm = Num(3)
    /\ \E i \in 1..Len(File.rows) :
          IsHyphen(File.rows[i][7]) /\ FromRow(i) = {}

\* C10: for every raw row that parses and is within the bounds, the cleaned
\* table has exactly one row with its key, and that row comes from the first
\* valid raw row with the key.
C10_FirstValidRowKept ==
    LET P == Parsed IN
    Loaded =>
        \A i \in 1..Len(P) :
            ValidRow(P[i]) =>
                LET first == CHOOSE h \in 1..i :
                                /\ ValidRow(P[h])
                                /\ SameKey(P[h], P[i])
                                /\ \A g \in 1..(h - 1) :
                                      ~(/\ ValidRow(P[g])
                                        /\ SameKey(P[g], P[i]))
                    same == {j \in 1..Len(df) : SameKey(df[j], P[i])}
                IN  /\ Cardinality(same) = 1
                    /\ same = FromRow(first)

\* An invalid row followed by a valid row of the same key: the valid one is
\* kept.
C10_Witness ==
    /\ Loaded
    /\ Len(Parsed) = 2
    /\ ~ValidRow(Parsed[1])
    /\ ValidRow(Parsed[2])
    /\ SameKey(Parsed[1], Parsed[2])
    /\ Len(df) = 1
    /\ df[1].idx = 1

====
